---- MODULE Spec2Model ----
(***************************************************************************)
(* A model of the focus_os VGA text driver: the Writer of                  *)
(* src/vga_buffer.rs (write_byte, new_line, clear_row, write_string), the  *)
(* with_writer accessor with its interrupt-free critical section, and the  *)
(* entry point _start of src/main.rs.                                      *)
(*                                                                         *)
(* Execution is a single core.  The only concurrency is interrupt          *)
(* delivery, so the control state is a stack of frames: the bottom frame   *)
(* is the main context, an interrupt pushes a handler frame, and every     *)
(* with_writer call pushes a frame that lives for the time of its action.  *)
(* Only the top frame takes steps.                                         *)
(***************************************************************************)
EXTENDS Integers, Sequences, FiniteSets, TLC

(***************************************************************************)
(* Bounds.  The grid of the source is 25 x 80 (vga_buffer.rs:44-45); the   *)
(* model keeps the code's loops and indexing and scales the grid down.     *)
(***************************************************************************)
BUFFER_HEIGHT == 3
BUFFER_WIDTH == 2
\* Number of bytes of HELLO that _start stores (all 19 in the source).
HelloLen == 2
\* with_writer calls made in one run, from every call site together.
MaxWriters == 3
\* Interrupts delivered in one run.
MaxIrq == 1
\* Bytes written through writers in one run: a line wrap and one more byte.
MaxBytes == 3

(***************************************************************************)
(* Bytes.                                                                  *)
(***************************************************************************)
LF == 10
SLASH == 47
SPACE == 32
PRINTABLE_LO == 32
PRINTABLE_HI == 126
PLACEHOLDER == 254

\* The bytes the callers of the model pass in: the line feed, the slash,
\* the letter A and DEL, the first byte above the printable range.
InputBytes == {LF, SLASH, 65, 127}
\* The bytes an action passes to write_byte itself.  Through write_string,
\* write_byte already receives every input byte but DEL.
DirectBytes == {127}

Printable == PRINTABLE_LO..PRINTABLE_HI

\* main.rs:16  static HELLO: &[u8] = b"Welcome to focus OS";
HELLO_BYTES ==
  <<87, 101, 108, 99, 111, 109, 101, 32, 116, 111, 32, 102, 111, 99, 117,
    115, 32, 79, 83>>
HELLO == SubSeq(HELLO_BYTES, 1, HelloLen)
\* main.rs:26  the attribute byte _start stores next to each byte
START_ATTR == 11

(***************************************************************************)
(* Color encoding (vga_buffer.rs:5-33).                                    *)
(***************************************************************************)
Black == 0
LightGray == 7
Yellow == 14

RECURSIVE BitOr(_, _)
BitOr(a, b) ==
  IF a = 0 THEN b
  ELSE IF b = 0 THEN a
  ELSE (IF (a % 2 = 1) \/ (b % 2 = 1) THEN 1 ELSE 0)
       + 2 * BitOr(a \div 2, b \div 2)

\* The codes of the enum Color
Colors == 0..15

\* A ColorCode::new with its two operands exchanged.
ColorCode_new_swapped(foreground, background) ==
  BitOr((foreground * 16) % 256, background)

\* (background as u8) << 4 | (foreground as u8), in 8 bits
ColorCode_new(foreground, background) ==
  BitOr((background * 16) % 256, foreground)

ScreenChar(byte, color_code) ==
  [ascii_character |-> byte, color_code |-> color_code]

Rows == 0..(BUFFER_HEIGHT - 1)
Cols == 0..(BUFFER_WIDTH - 1)

\* The display memory before the program touches it: the firmware's cleared
\* text screen (spaces, light gray on black).
BootBuffer ==
  [row \in Rows |-> [col \in Cols |-> ScreenChar(SPACE, ColorCode_new(LightGray, Black))]]

(***************************************************************************)
(* The Writer (vga_buffer.rs:55-115).  The operators work on a record m of *)
(* the writer's fields, the display memory, and two counters of the        *)
(* current write_byte call: how many times new_line ran and which          *)
(* character cells write_byte stored.                                      *)
(***************************************************************************)
\* clear_row: every column of `row` becomes a blank of the current colour
clear_row(m, row) ==
  LET blank == ScreenChar(SPACE, m.writer.color_code)
  IN [m EXCEPT !.buffer[row] = [col \in Cols |-> blank]]

\* the row loop of new_line: row r is copied over row r-1, for r = row..HEIGHT-1
RECURSIVE ShiftRows(_, _)
ShiftRows(buf, row) ==
  IF row >= BUFFER_HEIGHT THEN buf
  ELSE ShiftRows([buf EXCEPT ![row - 1] = [col \in Cols |-> buf[row][col]]],
                 row + 1)

\* A new_line that forgets to clear the bottom row.
new_line_keep_bottom(m) ==
  LET shifted == [m EXCEPT !.buffer = ShiftRows(m.buffer, 1)]
  IN [shifted EXCEPT !.writer.column_position = 0,
                     !.new_lines = @ + 1]

new_line(m) ==
  LET shifted == [m EXCEPT !.buffer = ShiftRows(m.buffer, 1)]
      cleared == clear_row(shifted, BUFFER_HEIGHT - 1)
  IN [cleared EXCEPT !.writer.column_position = 0,
                     !.new_lines = @ + 1]

\* The cells new_line reads and writes: its loops over rows 1..HEIGHT-1 and
\* all columns read (row, col) and write (row - 1, col), and clear_row
\* writes every column of row HEIGHT-1.
new_line_cells ==
  {<<row, col>> : row \in 1..(BUFFER_HEIGHT - 1), col \in 0..(BUFFER_WIDTH - 1)}
    \cup {<<row - 1, col>> :
            row \in 1..(BUFFER_HEIGHT - 1), col \in 0..(BUFFER_WIDTH - 1)}
    \cup {<<BUFFER_HEIGHT - 1, col>> : col \in 0..(BUFFER_WIDTH - 1)}

\* A write_byte that stores into the row above the bottom row.
write_byte_row_above(m, byte) ==
  IF byte = SLASH THEN new_line(m)
  ELSE LET m1 == IF m.writer.column_position >= BUFFER_WIDTH
                 THEN new_line(m) ELSE m
           row == BUFFER_HEIGHT - 2
           col == m1.writer.column_position
       IN [m1 EXCEPT !.buffer[row][col] = ScreenChar(byte, m1.writer.color_code),
                     !.writer.column_position = col + 1,
                     !.cell_writes = Append(@, <<row, col>>)]

\* A write_byte whose wrap check is > instead of >=: it wraps one column late.
write_byte_wrap_late(m, byte) ==
  IF byte = SLASH THEN new_line(m)
  ELSE LET m1 == IF m.writer.column_position > BUFFER_WIDTH
                 THEN new_line(m) ELSE m
           row == BUFFER_HEIGHT - 1
           col == m1.writer.column_position
       IN [m1 EXCEPT !.buffer[row][col] = ScreenChar(byte, m1.writer.color_code),
                     !.writer.column_position = col + 1,
                     !.cell_writes = Append(@, <<row, col>>)]

\* A write_byte whose wrap check is off by one: it wraps one column early.
write_byte_wrap_early(m, byte) ==
  IF byte = SLASH THEN new_line(m)
  ELSE LET m1 == IF m.writer.column_position + 1 >= BUFFER_WIDTH
                 THEN new_line(m) ELSE m
           row == BUFFER_HEIGHT - 1
           col == m1.writer.column_position
       IN [m1 EXCEPT !.buffer[row][col] = ScreenChar(byte, m1.writer.color_code),
                     !.writer.column_position = col + 1,
                     !.cell_writes = Append(@, <<row, col>>)]

write_byte(m, byte) ==
  IF byte = SLASH THEN new_line(m)
  ELSE LET m1 == IF m.writer.column_position >= BUFFER_WIDTH
                 THEN new_line(m) ELSE m
           row == BUFFER_HEIGHT - 1
           col == m1.writer.column_position
       IN [m1 EXCEPT !.buffer[row][col] = ScreenChar(byte, m1.writer.color_code),
                     !.writer.column_position = col + 1,
                     !.cell_writes = Append(@, <<row, col>>)]

\* A match whose printable range runs one byte too far.
write_string_match_incl_del(byte) ==
  IF (byte >= PRINTABLE_LO /\ byte <= 127) \/ byte = LF THEN byte
  ELSE PLACEHOLDER

\* the match of write_string: the byte it hands to write_byte
write_string_match(byte) ==
  IF (byte >= PRINTABLE_LO /\ byte <= PRINTABLE_HI) \/ byte = LF THEN byte
  ELSE PLACEHOLDER

(***************************************************************************)
(* interrupts::without_interrupts, as with_writer uses it: the flag is     *)
(* read, interrupts are disabled for the closure, and they are enabled     *)
(* again afterwards only if they were enabled before.                      *)
(***************************************************************************)
\* A critical section that leaves the interrupt flag as it found it.
flag_in_closure_unchanged(flag) == flag

flag_in_closure(flag) == FALSE

\* A manually paired disable/enable: the exit always enables.
flag_after_closure_enable(saved_intpt_flag, flag) == TRUE

flag_after_closure(saved_intpt_flag, flag) ==
  IF saved_intpt_flag THEN TRUE ELSE flag

(***************************************************************************)
(* WRITER_INITIALIZED.call_once(|| {}): spin::Once runs the closure if the  *)
(* Once is incomplete, returns at once if it is complete, and spins only   *)
(* while another context is running the closure.                           *)
(***************************************************************************)
\* A Once used like a lock that is never released: only the first call passes.
call_once_spins_after_first(once) == once # "Incomplete"

call_once_spins(once) == once = "Running"

(***************************************************************************)
(* State.                                                                  *)
(***************************************************************************)
VARIABLES
  buffer,              \* the display memory at 0xb8000
  stack,               \* the frames of the core, the running one last
  interrupts_enabled,  \* the interrupt flag of the core
  WRITER_INITIALIZED,  \* the state of the spin::Once
  once_runs,           \* how many times the call_once closure has run
  writers_made,        \* how many Writer values with_writer has constructed
  irqs,                \* interrupts delivered so far
  bytes,               \* bytes written through writers so far
  left,                \* the writer fields the last finished action left behind
  direct,              \* whether an action has called write_byte itself
  last,                \* what the step just taken did
  color,               \* the last call of ColorCode::new and its result
  mark                 \* history: the first character cell a writer stored

vars ==
  <<buffer, stack, interrupts_enabled, WRITER_INITIALIZED, once_runs,
    writers_made, irqs, bytes, left, direct, last, color, mark>>

NoWriter == [column_position |-> -1, color_code |-> 0]

NoOp ==
  [op |-> "none", via |-> "none", input |-> 0, byte |-> 0,
   before |-> NoWriter, after |-> NoWriter, new_lines |-> 0,
   cell_writes |-> <<>>, entry_flag |-> FALSE]

Top == stack[Len(stack)]
Below == SubSeq(stack, 1, Len(stack) - 1)
NoColor == [foreground |-> 0, background |-> 0, code |-> -1]

ReplaceTop(frame) == [stack EXCEPT ![Len(stack)] = frame]

MainFrame(fn) == [fn |-> fn, i |-> 0, calls |-> 0]

\* History of the first character cell stored through a writer: the cell,
\* its column, and how many times new_line has run since (counted up to
\* BUFFER_HEIGHT).
NoMark == [col |-> -1, cell |-> ScreenChar(SPACE, 0), scrolls |-> 0]

Marked(m) ==
  IF mark = NoMark
    THEN IF m.cell_writes = <<>> THEN mark
         ELSE [col |-> m.cell_writes[1][2],
               cell |-> m.buffer[m.cell_writes[1][1]][m.cell_writes[1][2]],
               scrolls |-> 0]
    ELSE IF mark.scrolls + m.new_lines > BUFFER_HEIGHT
           THEN [mark EXCEPT !.scrolls = BUFFER_HEIGHT]
           ELSE [mark EXCEPT !.scrolls = @ + m.new_lines]

Init ==
  /\ buffer = BootBuffer
  /\ \E fn \in {"_start", "caller"} : stack = <<MainFrame(fn)>>
  /\ interrupts_enabled \in BOOLEAN
  /\ WRITER_INITIALIZED = "Incomplete"
  /\ once_runs = 0
  /\ writers_made = 0
  /\ irqs = 0
  /\ bytes = 0
  /\ left = NoWriter
  /\ direct = FALSE
  /\ last = NoOp
  /\ color = NoColor
  /\ mark = NoMark

(***************************************************************************)
(* _start (main.rs:19-30): the loop over HELLO stores byte i and its       *)
(* attribute at byte offsets 2i and 2i+1 of the display memory, that is in *)
(* cell i of the row-major grid; then loop {} forever.                     *)
(***************************************************************************)
raw_store(buf, i, byte) ==
  [buf EXCEPT ![i \div BUFFER_WIDTH][i % BUFFER_WIDTH] =
                 ScreenChar(byte, START_ATTR)]

StartStore ==
  /\ Top.fn = "_start"
  /\ Top.i < Len(HELLO)
  /\ buffer' = raw_store(buffer, Top.i, HELLO[Top.i + 1])
  /\ stack' = ReplaceTop([Top EXCEPT !.i = @ + 1])
  /\ last' = [NoOp EXCEPT !.op = "raw_store"]
  /\ UNCHANGED <<interrupts_enabled, WRITER_INITIALIZED, once_runs,
                 writers_made, irqs, bytes, left, direct, color, mark>>

(***************************************************************************)
(* with_writer (vga_buffer.rs:142-166).  Entry: without_interrupts saves   *)
(* and clears the interrupt flag, call_once runs its (empty) closure if    *)
(* the Once is incomplete, and a Writer is constructed at column 0 with    *)
(* Yellow on Black.  The frame then runs the action f, which writes bytes  *)
(* through the writer and may call with_writer again before it returns.    *)
(***************************************************************************)
NewWriter ==
  [column_position |-> 0, color_code |-> ColorCode_new(Yellow, Black)]

WithWriterEnter(callers, site, nest) ==
  /\ ~call_once_spins(WRITER_INITIALIZED)
  /\ stack' = Append(callers,
        [fn |-> "with_writer",
         saved_intpt_flag |-> interrupts_enabled,
         writer |-> NewWriter,
         nest |-> nest,
         \* history: the interrupt flag at the time of the call, the bytes
         \* this action has passed to write_byte and the number of times
         \* new_line has run in it
         entry_flag |-> interrupts_enabled,
         written |-> <<>>,
         scrolls |-> 0])
  /\ interrupts_enabled' = flag_in_closure(interrupts_enabled)
  /\ WRITER_INITIALIZED' = "Complete"
  /\ once_runs' = IF WRITER_INITIALIZED = "Incomplete"
                  THEN once_runs + 1 ELSE once_runs
  /\ writers_made' = writers_made + 1
  /\ last' = [NoOp EXCEPT !.op = "enter", !.via = site,
                          !.before = left, !.after = NewWriter,
                          !.entry_flag = interrupts_enabled]
  /\ UNCHANGED <<buffer, bytes, left, direct, color, mark>>

\* A caller in the main context (such as example_global_writer) calls with_writer.
CallerCall ==
  /\ Top.fn = "caller"
  /\ writers_made < MaxWriters
  /\ WithWriterEnter(ReplaceTop([Top EXCEPT !.calls = @ + 1]), "caller", "may")
  /\ UNCHANGED irqs

\* The action calls with_writer again from inside the critical section.
NestedCall ==
  /\ Top.fn = "with_writer"
  /\ Top.nest = "may"
  /\ writers_made < MaxWriters
  /\ WithWriterEnter(ReplaceTop([Top EXCEPT !.nest = "done"]), "nested", "no")
  /\ UNCHANGED irqs

Step(input, byte, via) ==
  LET m0 == [writer |-> Top.writer, buffer |-> buffer,
             new_lines |-> 0, cell_writes |-> <<>>]
      m == write_byte(m0, byte)
  IN /\ buffer' = m.buffer
     /\ stack' = ReplaceTop([Top EXCEPT !.writer = m.writer,
                                        !.written = Append(@, byte),
                                        !.scrolls = @ + m.new_lines])
     /\ bytes' = bytes + 1
     /\ mark' = Marked(m)
     /\ last' = [op |-> "write_byte", via |-> via, input |-> input,
                 byte |-> byte, before |-> Top.writer, after |-> m.writer,
                 new_lines |-> m.new_lines, cell_writes |-> m.cell_writes,
                 entry_flag |-> FALSE]

\* One iteration of the loop of write_string over the bytes of s.
WriteStringByte ==
  /\ Top.fn = "with_writer"
  /\ bytes < MaxBytes
  /\ \E b \in InputBytes : Step(b, write_string_match(b), "write_string")
  /\ UNCHANGED <<interrupts_enabled, WRITER_INITIALIZED, once_runs,
                 writers_made, irqs, left, direct, color>>

\* The action calls the public write_byte itself.
WriteByteCall ==
  /\ Top.fn = "with_writer"
  /\ bytes < MaxBytes
  /\ \E b \in DirectBytes : Step(b, b, "write_byte")
  /\ direct' = TRUE
  /\ UNCHANGED <<interrupts_enabled, WRITER_INITIALIZED, once_runs,
                 writers_made, irqs, left, color>>

\* The action has returned: without_interrupts restores the flag and
\* with_writer returns to its caller.
WithWriterReturn ==
  /\ Top.fn = "with_writer"
  /\ stack' = Below
  /\ interrupts_enabled' =
       flag_after_closure(Top.saved_intpt_flag, interrupts_enabled)
  /\ left' = Top.writer
  /\ last' = [NoOp EXCEPT !.op = "return", !.entry_flag = Top.entry_flag]
  /\ UNCHANGED <<buffer, WRITER_INITIALIZED, once_runs, writers_made, irqs,
                 bytes, direct, color, mark>>

(***************************************************************************)
(* Interrupts.  The core delivers an interrupt only while the flag is set. *)
(* The handler starts with the flag cleared (interrupt gate) or left set   *)
(* (trap gate), calls with_writer once, and its return restores the flag   *)
(* of the interrupted context.                                             *)
(***************************************************************************)
\* Handlers that have not made their with_writer call yet.
PendingCalls ==
  Cardinality({i \in 1..Len(stack) :
                 stack[i].fn = "irq" /\ stack[i].pc = "call"})

Interrupt ==
  /\ interrupts_enabled
  /\ irqs < MaxIrq
  /\ writers_made + PendingCalls < MaxWriters
  /\ irqs' = irqs + 1
  /\ stack' = Append(stack, [fn |-> "irq", pc |-> "call",
                              saved_flag |-> interrupts_enabled])
  /\ interrupts_enabled' \in BOOLEAN
  /\ last' = NoOp
  /\ UNCHANGED <<buffer, WRITER_INITIALIZED, once_runs, writers_made, bytes,
                 left, direct, color, mark>>

HandlerCall ==
  /\ Top.fn = "irq"
  /\ Top.pc = "call"
  /\ writers_made < MaxWriters
  /\ WithWriterEnter(ReplaceTop([Top EXCEPT !.pc = "iret"]), "irq", "no")
  /\ UNCHANGED irqs

HandlerReturn ==
  /\ Top.fn = "irq"
  /\ Top.pc = "iret"
  /\ stack' = Below
  /\ interrupts_enabled' = Top.saved_flag
  /\ last' = NoOp
  /\ UNCHANGED <<buffer, WRITER_INITIALIZED, once_runs, writers_made, irqs,
                 bytes, left, direct, color, mark>>

Next ==
  \/ StartStore
  \/ CallerCall
  \/ NestedCall
  \/ WriteStringByte
  \/ WriteByteCall
  \/ WithWriterReturn
  \/ Interrupt
  \/ HandlerCall
  \/ HandlerReturn

Spec == Init /\ [][Next]_vars

\* The core never stops: the frame on top of the stack takes its next step.
\* (The main context at the bottom may idle, and _start ends in loop {}.)
Running ==
  \/ NestedCall
  \/ WriteStringByte
  \/ WriteByteCall
  \/ WithWriterReturn
  \/ HandlerCall
  \/ HandlerReturn

FairSpec == Spec /\ WF_vars(Running)

(***************************************************************************)
(* ColorCode::new as a function of its own: a specification that calls it  *)
(* on every pair of colours and keeps the arguments with the result.       *)
(***************************************************************************)
ColorCodeNew ==
  /\ \E foreground \in Colors, background \in Colors :
       color' = [foreground |-> foreground, background |-> background,
                 code |-> ColorCode_new(foreground, background)]
  /\ UNCHANGED <<buffer, stack, interrupts_enabled, WRITER_INITIALIZED,
                 once_runs, writers_made, irqs, bytes, left, direct, last,
                 mark>>

SpecColor == Init /\ [][ColorCodeNew]_vars

(***************************************************************************)
(* Properties.                                                             *)
(***************************************************************************)
BottomRow == BUFFER_HEIGHT - 1
WroteByte == last.op = "write_byte"
ViaWriteString == WroteByte /\ last.via = "write_string"
SomeCellHolds(byte) ==
  \E row \in Rows, col \in Cols : buffer[row][col].ascii_character = byte
InAction == \E i \in 1..Len(stack) : stack[i].fn = "with_writer"

\* C1: every with_writer call works on the same writer: the column position
\* and attribute the previous call's action left behind are the ones the
\* next call's action starts from.
C1_WriterSharedAcrossCalls ==
  (last.op = "enter" /\ last.via # "nested" /\ last.before # NoWriter)
    => last.after = last.before

\* C2: while an action of with_writer runs, interrupts are disabled and no
\* interrupt handler runs on top of it: the only frame ever found above a
\* with_writer frame is a with_writer call made by the action itself.
C2_NoInterruptInsideAction ==
  \A i \in 1..Len(stack) :
    stack[i].fn = "with_writer"
      => /\ ~interrupts_enabled
         /\ i < Len(stack) => stack[i + 1].fn = "with_writer"

\* An action entered with interrupts enabled has written a byte and goes on,
\* while an interrupt is still to come.
C2_MidWrite ==
  /\ Top.fn = "with_writer"
  /\ Top.entry_flag
  /\ WroteByte
  /\ bytes < MaxBytes
  /\ irqs < MaxIrq
  /\ writers_made < MaxWriters

\* C3: when with_writer returns, the interrupt flag is what it was
\* immediately before the call, and it is clear while the action runs.
C3_FlagRestored ==
  /\ last.op = "return" => interrupts_enabled = last.entry_flag
  /\ Top.fn = "with_writer" => ~interrupts_enabled

\* A with_writer call made inside an action, with interrupts already
\* disabled, has just returned to that action.
C3_NestedReturned ==
  /\ last.op = "return"
  /\ ~last.entry_flag
  /\ Top.fn = "with_writer"
  /\ Top.nest = "done"

\* C4: the initialization of the shared writer happens exactly once over
\* any number of with_writer calls, and before the first action runs.
C4_InitExactlyOnce ==
  /\ once_runs <= 1
  /\ writers_made <= 1
  /\ InAction => (once_runs = 1 /\ writers_made = 1)

\* C5: every store to the display region is made inside a with_writer
\* action with interrupts disabled, and the entry point has made at least
\* one with_writer call when it halts.
C5_DisplayOnlyThroughWithWriter ==
  [][/\ buffer' # buffer => (Top.fn = "with_writer" /\ ~interrupts_enabled)
     /\ (stack'[1].fn = "_start" /\ stack'[1].i = Len(HELLO))
          => stack'[1].calls >= 1]_vars

\* C6: write_byte of the line feed 0x0A performs exactly one scroll-and-reset
\* and stores no character cell: the column position is 0 afterwards and no
\* cell holds 0x0A.
C6_LineFeedScrolls ==
  (WroteByte /\ last.byte = LF)
    => /\ last.new_lines = 1
       /\ last.cell_writes = <<>>
       /\ last.after.column_position = 0
       /\ ~SomeCellHolds(LF)

OneCellWrite ==
  /\ last.new_lines = 0
  /\ last.cell_writes = << <<BottomRow, last.before.column_position>> >>
OneScroll ==
  /\ last.new_lines = 1
  /\ last.cell_writes = <<>>
WrapThenWrite ==
  /\ last.before.column_position = BUFFER_WIDTH
  /\ last.new_lines = 1
  /\ last.cell_writes = << <<BottomRow, 0>> >>

\* C7 as claimed: write_byte of a printable byte or of the line feed, from
\* any column position, does exactly one cell write at the current position
\* or exactly one scroll-and-reset, never both and never neither.
C7_OneWriteOrOneScroll ==
  (WroteByte /\ last.byte \in Printable \cup {LF})
    => (OneCellWrite \/ OneScroll)

\* C7 as amended: the same, except that from column position WIDTH a byte
\* that is stored is stored after one scroll-and-reset, at column 0 of the
\* bottom row; both happen only then.
C7_OneWriteOrScrollOrWrap ==
  (WroteByte /\ last.byte \in Printable \cup {LF})
    => (OneCellWrite \/ OneScroll \/ WrapThenWrite)

\* write_byte has stored a byte after wrapping the full line.
C7_Wrapped == WroteByte /\ last.byte \in Printable /\ WrapThenWrite

\* C8: write_string stores every printable byte unchanged: with the column
\* position below WIDTH, the bottom-row cell at that column holds the byte
\* with the current attribute and the column position has advanced by 1.
C8_PrintableForwarded ==
  (/\ ViaWriteString
   /\ last.input \in Printable
   /\ last.before.column_position < BUFFER_WIDTH)
    => /\ buffer[BottomRow][last.before.column_position]
            = ScreenChar(last.input, last.before.color_code)
       /\ last.after.column_position = last.before.column_position + 1

Substituted == ViaWriteString /\ last.input \notin Printable /\ last.input # LF

\* C9 as claimed: for a byte outside the printable range other than the line
\* feed, write_string stores 0xFE in the bottom row at the column position
\* before the byte, advances the column position by 1, and the byte itself
\* is in no cell.
C9_PlaceholderInPlace ==
  Substituted
    => /\ last.cell_writes = << <<BottomRow, last.before.column_position>> >>
       /\ last.before.column_position \in Cols
       /\ buffer[BottomRow][last.before.column_position]
            = ScreenChar(PLACEHOLDER, last.before.color_code)
       /\ last.after.column_position = last.before.column_position + 1
       /\ ~direct => ~SomeCellHolds(last.input)

\* C9 as amended: the placeholder is stored at the column position before
\* the byte when that is below WIDTH, and at column 0 after one
\* scroll-and-reset when it is WIDTH; the column position afterwards is one
\* past the stored cell; the byte itself is in no cell (as long as no action
\* has passed it to write_byte directly).
C9_PlaceholderInPlaceOrWrapped ==
  Substituted
    => LET wrap == last.before.column_position >= BUFFER_WIDTH
           col == IF wrap THEN 0 ELSE last.before.column_position
       IN /\ last.new_lines = (IF wrap THEN 1 ELSE 0)
          /\ last.cell_writes = << <<BottomRow, col>> >>
          /\ buffer[BottomRow][col]
               = ScreenChar(PLACEHOLDER, last.before.color_code)
          /\ last.after.column_position = col + 1
          /\ ~direct => ~SomeCellHolds(last.input)

\* write_string has substituted a byte that arrived at the end of a full line.
C9_SubstitutedAtWrap ==
  Substituted /\ last.before.column_position = BUFFER_WIDTH

\* C10: after write_string calls on any bytes, every cell the writer has
\* written holds a byte of [0x20,0x7E] or the placeholder 0xFE.  (The boot
\* screen and HELLO hold printable bytes only, so a cell outside that set
\* was written by a writer.)
C10_OnlyPrintableDisplayed ==
  ~direct =>
    \A row \in Rows, col \in Cols :
      buffer[row][col].ascii_character \in Printable \cup {PLACEHOLDER}

\* C11: from column position 0, WIDTH+1 bytes without a line feed cause
\* exactly one scroll-and-reset, at the write of the last of them: the first
\* WIDTH bytes are then in row HEIGHT-2, the last one at column 0 of the
\* bottom row, and the column position is 1.
C11_LineWrap ==
  (/\ WroteByte
   /\ Top.nest # "done"
   /\ Len(Top.written) = BUFFER_WIDTH + 1
   /\ \A i \in 1..Len(Top.written) : Top.written[i] # LF)
    => /\ Top.scrolls = 1
       /\ last.new_lines = 1
       /\ \A col \in Cols :
            buffer[BottomRow - 1][col]
              = ScreenChar(Top.written[col + 1], Top.writer.color_code)
       /\ buffer[BottomRow][0]
            = ScreenChar(Top.written[BUFFER_WIDTH + 1], Top.writer.color_code)
       /\ Top.writer.column_position = 1

\* C12: a scroll-and-reset moves every row r in [1,HEIGHT-1] to row r-1,
\* cell by cell (byte and attribute), leaves the bottom row blank (spaces
\* with the writer's attribute) and the column position at 0.  When the
\* scroll is the wrap of a full line, the byte that caused it is then
\* stored at column 0 of that blank row.
C12_ScrollAndReset ==
  [][(last'.op = "write_byte" /\ last'.new_lines = 1)
       => /\ \A row \in 1..(BUFFER_HEIGHT - 1), col \in Cols :
               buffer'[row - 1][col] = buffer[row][col]
          /\ \A col \in Cols :
               (\A i \in 1..Len(last'.cell_writes) :
                   last'.cell_writes[i] # <<BottomRow, col>>)
                 => buffer'[BottomRow][col]
                      = ScreenChar(SPACE, last'.before.color_code)
          /\ last'.after.column_position = Len(last'.cell_writes)
          /\ \A i \in 1..Len(last'.cell_writes) :
               last'.cell_writes[i] = <<BottomRow, 0>>]_vars

\* A scroll-and-reset alone has moved written bytes up from the bottom row.
C12_Scrolled ==
  /\ WroteByte
  /\ last.new_lines = 1
  /\ last.cell_writes = <<>>
  /\ last.after.column_position = 0
  /\ \E col \in Cols : buffer[BottomRow - 1][col].ascii_character # SPACE

\* C13: write_byte of a byte b other than the line feed, at a column
\* position c < WIDTH, stores {b, attribute} at (HEIGHT-1, c), sets the
\* column position to c+1 and changes no other cell nor the attribute.
C13_WriteByteFrame ==
  [][(/\ last'.op = "write_byte"
      /\ last'.byte # LF
      /\ last'.before.column_position < BUFFER_WIDTH)
       => /\ buffer' = [buffer EXCEPT
               ![BottomRow][last'.before.column_position] =
                  ScreenChar(last'.byte, last'.before.color_code)]
          /\ last'.after =
               [column_position |-> last'.before.column_position + 1,
                color_code |-> last'.before.color_code]]_vars

\* C14: for all colour codes in 0..15, ColorCode::new(foreground,
\* background) is (background << 4) | foreground: it fits in one byte, its
\* low nibble is the foreground code and its high nibble the background code.
C14_ColorEncoding ==
  color # NoColor
    => /\ color.code = color.background * 16 + color.foreground
       /\ color.code \in 0..255
       /\ color.code % 16 = color.foreground
       /\ color.code \div 16 = color.background

\* ColorCode::new has encoded LightRed on Blue.
C14_Encoded ==
  color = [foreground |-> 12, background |-> 1, code |-> 28]

\* C15: in every reachable state the column position of a writer is in
\* [0,WIDTH], and every cell the writer reads or writes has its row in
\* [0,HEIGHT) and its column in [0,WIDTH).
C15_InBounds ==
  /\ \A i \in 1..Len(stack) :
       stack[i].fn = "with_writer"
         => stack[i].writer.column_position \in 0..BUFFER_WIDTH
  /\ WroteByte =>
       \A i \in 1..Len(last.cell_writes) :
         /\ last.cell_writes[i][1] \in Rows
         /\ last.cell_writes[i][2] \in Cols
  /\ (WroteByte /\ last.new_lines > 0) => new_line_cells \subseteq Rows \X Cols

\* A writer stands at the end of a full line, column position WIDTH.
C15_AtLineEnd ==
  /\ WroteByte
  /\ Top.writer.column_position = BUFFER_WIDTH

\* C16: every call runs to completion without blocking: a with_writer call
\* that a call site is ready to make is never held up, whether or not the
\* initialization has already run and also from inside an action, and every
\* with_writer call and every handler in progress returns, so that the core
\* is back in the main context.
C16_EveryCallReturns ==
  /\ [](/\ (Top.fn = "caller" /\ writers_made < MaxWriters)
            => ENABLED CallerCall
        /\ (Top.fn = "with_writer" /\ Top.nest = "may"
              /\ writers_made < MaxWriters)
            => ENABLED NestedCall
        /\ (Top.fn = "irq" /\ Top.pc = "call") => ENABLED HandlerCall
        /\ Top.fn = "with_writer" => ENABLED WithWriterReturn)
  /\ (Len(stack) > 1) ~> (Len(stack) = 1)

\* With the initialization already run, a with_writer call made from inside
\* an action is in progress.
C16_NestedRunning ==
  /\ Len(stack) >= 3
  /\ Top.fn = "with_writer"
  /\ stack[Len(stack) - 1].fn = "with_writer"
  /\ WRITER_INITIALIZED = "Complete"
  /\ writers_made >= 2

\* C17: the rows above the bottom row change only by scrolling: a writer
\* operation (a with_writer entry or return, a write_byte) in which new_line
\* does not run leaves every cell of rows 0..HEIGHT-2 as it was, and every
\* character cell that write_byte stores is in row HEIGHT-1.
C17_UpperRowsOnlyScroll ==
  [][(last'.op \in {"enter", "write_byte", "return"})
       => /\ last'.new_lines = 0
               => \A row \in 0..(BUFFER_HEIGHT - 2), col \in Cols :
                    buffer'[row][col] = buffer[row][col]
          /\ \A i \in 1..Len(last'.cell_writes) :
               last'.cell_writes[i][1] = BottomRow]_vars

\* A byte has been stored without a scroll while a row above the bottom row
\* holds text of an earlier line.
C17_WroteBelowText ==
  /\ WroteByte
  /\ last.new_lines = 0
  /\ Len(last.cell_writes) = 1
  /\ \E row \in 0..(BUFFER_HEIGHT - 2), col \in Cols :
       buffer[row][col] = ScreenChar(65, ColorCode_new(Yellow, Black))

\* C18: scroll history: a cell {b, attr} that a writer stored at
\* (HEIGHT-1, c) is found unchanged at (HEIGHT-1-k, c) once new_line has run
\* exactly k times since, for every k in [1, HEIGHT-1], whatever was written
\* in between.
C18_ScrollHistory ==
  (mark # NoMark /\ mark.scrolls \in 1..(BUFFER_HEIGHT - 1))
    => buffer[BottomRow - mark.scrolls][mark.col] = mark.cell

====
